---- MODULE Spec2Model ----
(***************************************************************************)
(* Model of frappe_client.FrappeRequest (src/frappe_client/frappe_client.py)*)
(*                                                                         *)
(* One client object talks to one server.  Every action runs the client's  *)
(* code from one completed HTTP exchange to the next blocking HTTP send (or *)
(* to the return / raise / yield that ends the step).                       *)
(*                                                                         *)
(* Encoding of Python values:                                              *)
(*   None         <<>>          (an optional value is a sequence of 0 or 1) *)
(*   a value v    <<v>>                                                     *)
(*   dict         a function from key strings to value strings              *)
(*   list         a sequence                                                *)
(* A query parameter is modelled by the integer whose decimal text is put   *)
(* on the wire: str(n) (line 197) and n (line 245) are URL-encoded alike.   *)
(***************************************************************************)
EXTENDS Integers, Sequences, FiniteSets, TLC

(***************************************************************************)
(* Bounds of the model                                                     *)
(***************************************************************************)
\* largest collection the server holds (besides the two example sizes)
MaxItems == 5
\* largest page length a caller passes (besides 0 and the default)
MaxPageLen == 2
\* largest start offset a caller passes
MaxStart == 1
\* a walk against an unconstrained server is not resumed once it has decoded
\* this many pages
MaxPages == 2

(***************************************************************************)
(* Program constants                                                       *)
(***************************************************************************)
\* get_paginated_doc: limit_page_length=100, and 100 if limit_page_length == 0
DefaultPageLength == 100

(***************************************************************************)
(* Python values                                                           *)
(***************************************************************************)
None == <<>>
Some(v) == <<v>>
Val(o) == o[1]

EmptyDict == [k \in {} |-> ""]
Dict1(k, v) == [x \in {k} |-> v]

\* bool(x) of an optional string / dict / list / int
TruthyStr(o) == o # None /\ Val(o) # ""
TruthyDict(o) == o # None /\ DOMAIN Val(o) # {}
TruthyInt(o) == o # None /\ Val(o) # 0

\* d.update(other): keys of other overwrite keys of d
DictUpdate(d, other) ==
    [k \in (DOMAIN d) \cup (DOMAIN other) |->
        IF k \in DOMAIN other THEN other[k] ELSE d[k]]

Min(a, b) == IF a < b THEN a ELSE b
Max(a, b) == IF a > b THEN a ELSE b

\* the integers lo, lo+1, ..., hi as a list (empty when hi < lo)
Range(lo, hi) == [i \in 1..Max(hi - lo + 1, 0) |-> lo + i - 1]

(***************************************************************************)
(* Values exchanged with the server                                        *)
(***************************************************************************)
\* HTTP statuses the server answers with
Statuses == {200, 403, 404, 500}
LoginStatuses == {200, 403, 500}

\* a decoded JSON value.  Doc(data): an object, with its "data" member when
\* that is a list, None when it has no such member.  DataNoneDoc: an object
\* whose "data" member is null.  NotADict: a value that is not an object
\* (a list, a string, null).
Doc(data) == [is_dict |-> TRUE, data_is_none |-> FALSE, data |-> data]
DataNoneDoc == [is_dict |-> TRUE, data_is_none |-> TRUE, data |-> None]
NotADict == [is_dict |-> FALSE, data_is_none |-> FALSE, data |-> None]
\* a response: status, body (None: not JSON, else the document), Set-Cookie
Response(status, body, cookies) ==
    [status |-> status, body |-> body, cookies |-> cookies]

\* self.frappe_session.cookies.  A cookie is kept under its domain, path and
\* name: `seeded` are the cookies of cookiejar_from_dict (domain ''), `host`
\* the cookies the session stored from the Set-Cookie of responses (domain of
\* the site).  A name may be in both, and both are sent.
Jar(seeded, host) == [seeded |-> seeded, host |-> host]
EmptyJar == Jar(EmptyDict, EmptyDict)

\* the Cookie header of a request: for every name the values sent, in the
\* order of the jar (the cookies of cookiejar_from_dict come first)
CookieHeader(jar) ==
    [n \in (DOMAIN jar.seeded) \cup (DOMAIN jar.host) |->
        (IF n \in DOMAIN jar.seeded THEN <<jar.seeded[n]>> ELSE <<>>)
            \o (IF n \in DOMAIN jar.host THEN <<jar.host[n]>> ELSE <<>>)]

\* cookie sets a login response carries
LoginCookies == {EmptyDict, Dict1("sid", "s1")}
LoginResponses ==
    {Response(st, None, c) : st \in LoginStatuses, c \in LoginCookies}

\* bodies of /api/method/ and single-record answers: not JSON, a document
\* without "data", a document with "data"; a 403 carries no data
PlainBodies(status) ==
    {None, Some(Doc(None))} \cup (IF status = 403 THEN {} ELSE {Some(Doc(Some(<<1>>)))})
PlainResponses ==
    UNION {{Response(st, b, EmptyDict) : b \in PlainBodies(st)} : st \in Statuses}

(***************************************************************************)
(* Arguments callers pass                                                  *)
(***************************************************************************)
Usernames == {None, Some("admin")}
Passwords == {None, Some("secret")}
SessionDatas == {None, Some(EmptyDict), Some(Dict1("sid", "s0"))}
ApiPairs == {<<None, None>>, <<Some("key"), Some("shh")>>}
Callbacks == {None, Some("cb")}
BaseHeaders == {None, Some(Dict1("X", "base"))}
\* per-call headers: one key the base headers also have, one they do not
CallHeaders == {None, Some([k \in {"X", "Y"} |-> "call"])}
PageLengths == {Some(n) : n \in 0..MaxPageLen}
Starts == {None} \cup {Some(n) : n \in 0..MaxStart}
\* sizes of the server's collection: small ones and the two worked examples
ExampleSizes == {200, 250}
Sizes == (0..MaxItems) \cup ExampleSizes

(***************************************************************************)
(* State                                                                   *)
(***************************************************************************)
VARIABLES
    constructed,    \* a FrappeRequest object exists (__init__ returned)
    usr,            \* self.usr
    pwd,            \* self.pwd
    session_data,   \* self.session_data
    callback,       \* self.callback
    headers,        \* self.headers
    cookies,        \* self.frappe_session.cookies
    authorization,  \* self.frappe_session.headers["Authorization"]
    call,           \* the operation in progress (or the last one finished)
    other,          \* the operation of a second thread on the same object,
                    \* while that thread does not run (idle when there is none)
    server          \* the server: how it answers listings, and its records

fields == <<constructed, usr, pwd, session_data, callback, headers, cookies, authorization>>
vars == <<constructed, usr, pwd, session_data, callback, headers, cookies, authorization,
          call, other, server>>

Exception(type, message) == [type |-> type, message |-> message]

\* the record of an operation that has not sent anything yet
NewCall(op, args) ==
    [op |-> op, pc |-> "idle", args |-> args,
     headers |-> None,            \* local `headers` after the merge
     start |-> 0,                 \* local `start`
     limit_page_length |-> None,  \* local `limit_page_length`
     limit_start |-> None,        \* params["limit_start"]
     pages |-> 0,                 \* local `pages`
     response |-> None,           \* local `response`
     result |-> None,             \* the value returned
     yielded |-> <<>>,            \* the pages yielded so far
     raised |-> None,             \* the exception that ended the operation
     callbacks |-> <<>>,          \* arguments self.callback was called with
     offsets |-> <<>>,            \* limit_start of the request of each iteration
     logins |-> <<>>,             \* answers to the logins of this call (iteration)
     received |-> <<>>,           \* answers to this call (this iteration of a walk)
     sent |-> <<>>]               \* requests of this call (this iteration of a walk)

\* the arguments of a call: the entry point the caller used and what it passed
Args(entry, name, pagination, h, limit_page_length, limit_start) ==
    [entry |-> entry, name |-> name, pagination |-> pagination, headers |-> h,
     limit_page_length |-> limit_page_length, limit_start |-> limit_start]
NoArgs == Args("none", "", FALSE, None, None, None)

Finished == {"idle", "done", "raised"}

TypeOK ==
    /\ constructed \in BOOLEAN
    /\ call.pc \in {"idle", "sent", "login", "loggedin", "resent", "yielded", "last",
                  "done", "raised"}
    /\ call.raised # None <=> call.pc = "raised"
    /\ call.op \in {"none", "__init__", "set_session_token", "get", "post", "get_doc",
                  "get_paginated_doc"}
    /\ server.mode \in {"any", "fixed"}

Init ==
    /\ constructed = FALSE
    /\ usr = None /\ pwd = None /\ session_data = None
    /\ callback = None /\ headers = None
    /\ cookies = EmptyJar /\ authorization = None
    /\ call = NewCall("none", NoArgs)
    /\ other = NewCall("none", NoArgs)
    /\ server = [mode |-> "any", size |-> 0]

(***************************************************************************)
(* Helpers of the client                                                   *)
(***************************************************************************)
\* is_legacy_auth (property)
IsLegacyAuthOf(u, p, sd) == (TruthyStr(u) /\ TruthyStr(p)) \/ TruthyDict(sd)
is_legacy_auth == IsLegacyAuthOf(usr, pwd, session_data)

\* _get_cookie_data(response)
GetCookieData(response) == response.cookies

\* mutant: a body that is not JSON is taken for an empty document
ProcessResponseLenient(response) ==
    [raised |-> None,
     value |-> IF response.body = None THEN Some(Doc(None)) ELSE response.body]

\* _process_response(response): the document, or GeneralException
ProcessResponse(response) ==
    IF response.body = None
    THEN [raised |-> Some(Exception("GeneralException", "Unable to process non JSON response")),
          value |-> None]
    ELSE [raised |-> None, value |-> response.body]

\* the status checks of _login on the login response
LoginRaises(status) ==
    IF status = 403 THEN Some(Exception("GeneralException", "Invalid Session"))
    ELSE IF status # 200
         THEN Some(Exception("GeneralException", "An error with frappe response occurred"))
         ELSE None

\* mutant: _login does not call the callback
LoginCallbackNever(cb, response) == <<>>

\* the callback step of _login: the arguments the callback is called with
LoginCallback(cb, response) ==
    IF cb # None THEN <<GetCookieData(response)>> ELSE <<>>

\* set_session_token(session_data): a new jar replaces the jar of the session;
\* `cookiejar` is bound only `if session_data:`, its use raises otherwise
SetSessionToken(jar, sd) ==
    IF TruthyDict(sd)
    THEN [raised |-> None, cookies |-> Jar(Val(sd), EmptyDict)]
    ELSE [raised |-> Some(Exception("UnboundLocalError",
                "cannot access local variable 'cookiejar' where it is not associated with a value")),
          cookies |-> jar]

\* `if headers: headers.update(self.headers) else: headers = self.headers`
MergeHeaders(h, base) ==
    IF TruthyDict(h)
    THEN IF base = None
         THEN [raised |-> Some(Exception("TypeError", "'NoneType' object is not iterable")),
               headers |-> h]
         ELSE [raised |-> None, headers |-> Some(DictUpdate(Val(h), Val(base)))]
    ELSE [raised |-> None, headers |-> base]

\* the session stores the cookies of every response in its jar, under the
\* domain of the site: they replace the cookies of the same name an earlier
\* response set, not those of set_session_token
StoreCookies(jar, response) == [jar EXCEPT !.host = DictUpdate(@, response.cookies)]

\* one request as it leaves the client
Request(kind, hdrs, limit_start, limit_page_length, jar) ==
    [kind |-> kind, headers |-> hdrs, limit_start |-> limit_start,
     limit_page_length |-> limit_page_length, cookies |-> CookieHeader(jar)]

(***************************************************************************)
(* The server                                                              *)
(***************************************************************************)
\* numbers of items an unconstrained server puts in one page
ItemCounts(limit_page_length) ==
    IF limit_page_length = None
    THEN {0, 1}
    ELSE {0, Val(limit_page_length) - 1, Val(limit_page_length), Val(limit_page_length) + 1}

\* the page of k records that starts at the offset of the request
Page(req, k) == Some(Doc(Some(Range(Val(req.limit_start) + 1, Val(req.limit_start) + k))))

\* bodies an unconstrained server sends with a status: with 200 a page of any
\* of the item counts, with 404 and 500 at most a full page, with 403 no page;
\* with every status but 403 also an object with a null "data" and a value
\* that is no object
ListingBodies(status, req) ==
    {None, Some(Doc(None))}
        \cup (IF status = 403 THEN {} ELSE {Some(DataNoneDoc), Some(NotADict)})
        \cup (CASE status = 200 -> {Page(req, k) : k \in ItemCounts(req.limit_page_length)}
                 [] status = 403 -> {}
                 [] OTHER -> IF req.limit_page_length = None
                             THEN {Page(req, 1)}
                             ELSE {Page(req, Val(req.limit_page_length))})

\* answers of an unconstrained server to a listing request
AnyListing(req) ==
    UNION {{Response(st, b, EmptyDict) : b \in ListingBodies(st, req)} : st \in Statuses}

\* answers of a server holding the records 1..size: the records at positions
\* [limit_start, limit_start + limit_page_length), an empty list or 404 past the end
FixedListing(size, req) ==
    IF Val(req.limit_start) < size
    THEN {Response(200,
                   Some(Doc(Some(Range(Val(req.limit_start) + 1,
                                       Min(Val(req.limit_start) + Val(req.limit_page_length),
                                           size))))),
                   EmptyDict)}
    ELSE {Response(200, Some(Doc(Some(<<>>))), EmptyDict),
          Response(404, None, EmptyDict)}

ListingResponses(req) ==
    IF server.mode = "fixed" /\ req.limit_page_length # None
            /\ Val(req.limit_page_length) > 0
    THEN FixedListing(server.size, req)
    ELSE AnyListing(req)

\* the answers the server may give to the request the call is waiting on
Responses(c) ==
    IF c.op = "get_paginated_doc"
    THEN ListingResponses(c.sent[Len(c.sent)])
    ELSE PlainResponses

(***************************************************************************)
(* __init__                                                                *)
(***************************************************************************)
\* a generator of get_paginated_doc is suspended at a yield
Suspended(c) == c.op = "get_paginated_doc" /\ c.pc \in {"yielded", "last"}

\* the object has no guard against a call while another is in progress.  A
\* thread starts a call when its last call has ended, or from the body of its
\* loop over a walk, between two pages: the generator stays suspended (kept
\* in `other`, which holds one record) until that call has ended
CanStart == call.pc = "idle" \/ (Suspended(call) /\ other.pc = "idle")
KeepSuspended == other' = IF Suspended(call) THEN call ELSE other

\* the call has ended: the thread is back in the loop over the suspended
\* generator, if there is one
Ending == IF Suspended(other) THEN other ELSE NewCall("none", NoArgs)
EndCall ==
    /\ call' = Ending
    /\ other' = IF Suspended(other) THEN NewCall("none", NoArgs) ELSE other

\* mutant: session data is refused only when user and password are both missing
InitBranchAny(username, password, sd, api_key, api_secret) ==
    IF TruthyDict(sd)
    THEN IF ~(TruthyStr(username) \/ TruthyStr(password)) THEN "missing" ELSE "session"
    ELSE IF TruthyStr(username) /\ TruthyStr(password) THEN "login"
    ELSE IF TruthyStr(api_key) /\ TruthyStr(api_secret) THEN "token"
    ELSE "none"

\* mutant: user and password are looked at before the session data
InitBranchLoginFirst(username, password, sd, api_key, api_secret) ==
    IF TruthyStr(username) /\ TruthyStr(password) THEN "login"
    ELSE IF TruthyDict(sd) THEN "missing"
    ELSE IF TruthyStr(api_key) /\ TruthyStr(api_secret) THEN "token"
    ELSE "none"

\* the branch __init__ takes: session data, login, API key, or none
InitBranch(username, password, sd, api_key, api_secret) ==
    IF TruthyDict(sd)
    THEN IF ~(TruthyStr(username) /\ TruthyStr(password)) THEN "missing" ELSE "session"
    ELSE IF TruthyStr(username) /\ TruthyStr(password) THEN "login"
    ELSE IF TruthyStr(api_key) /\ TruthyStr(api_secret) THEN "token"
    ELSE "none"

Construct(username, password, sd, api_key, api_secret, cb, h) ==
    LET branch == InitBranch(username, password, sd, api_key, api_secret)
        args == [NoArgs EXCEPT !.entry = "__init__", !.headers = h] @@
                [username |-> username, password |-> password, session_data |-> sd,
                 api_key |-> api_key, api_secret |-> api_secret, callback |-> cb]
        c == NewCall("__init__", args)
    IN
    /\ ~constructed
    /\ call.pc = "idle"
    /\ usr' = username
    /\ pwd' = password
    /\ callback' = cb
    /\ headers' = h
    /\ session_data' = IF branch = "session" THEN sd ELSE None
    /\ cookies' = IF branch = "session" THEN SetSessionToken(EmptyJar, sd).cookies
                                         ELSE EmptyJar
    /\ authorization' = IF branch = "token"
                        THEN Some(<<"token", Val(api_key), Val(api_secret)>>)
                        ELSE None
    /\ constructed' = (branch \in {"session", "token", "none"})
    /\ call' = CASE branch = "missing" ->
                      [c EXCEPT !.pc = "raised",
                                !.raised = Some(Exception("MissingConfigException",
                                    "Missing user, password for session based auth."))]
                 [] branch = "login" ->
                      [c EXCEPT !.pc = "login",
                                !.sent = <<Request("login", h, None, None, EmptyJar)>>]
                 [] OTHER -> [c EXCEPT !.pc = "done"]
    /\ UNCHANGED <<other, server>>

(***************************************************************************)
(* get, post, get_doc: the start of a call up to its first request          *)
(***************************************************************************)
\* the call after the header merge: it raised, or its first request is out
Begin(c, merged, limit_start, limit_page_length) ==
    IF merged.raised # None
    THEN [c EXCEPT !.pc = "raised", !.raised = merged.raised, !.headers = merged.headers]
    ELSE [c EXCEPT !.pc = "sent",
                   !.headers = merged.headers,
                   !.limit_start = limit_start,
                   !.offsets = <<limit_start>>,
                   !.sent = <<Request("call", merged.headers, limit_start,
                                      limit_page_length, cookies)>>]

Get(h) ==
    /\ constructed /\ CanStart
    /\ call' = Begin(NewCall("get", Args("get", "", FALSE, h, None, None)),
                     MergeHeaders(h, headers), None, None)
    /\ KeepSuspended
    /\ UNCHANGED <<fields, server>>

Post(h) ==
    /\ constructed /\ CanStart
    /\ call' = Begin(NewCall("post", Args("post", "", FALSE, h, None, None)),
                     MergeHeaders(h, headers), None, None)
    /\ KeepSuspended
    /\ UNCHANGED <<fields, server>>

\* get_paginated_doc: `start = limit_start if limit_start else 0`
WalkStart(limit_start) == IF TruthyInt(limit_start) THEN Val(limit_start) ELSE 0

\* get_paginated_doc: `100 if limit_page_length == 0 else limit_page_length`
WalkPageLength(limit_page_length) ==
    IF limit_page_length = Some(0) THEN Some(DefaultPageLength) ELSE limit_page_length

\* get_paginated_doc from its first line to the first request of the loop:
\* the header merge first; when it raises, `limit_page_length` is still the
\* argument and `start` is not bound; the two are computed after it
BeginWalk(args) ==
    LET merged == MergeHeaders(args.headers, headers)
        entered == [NewCall("get_paginated_doc", args) EXCEPT
                        !.limit_page_length = args.limit_page_length]
        start == WalkStart(args.limit_start)
        lpl == WalkPageLength(args.limit_page_length)
        c == [entered EXCEPT !.start = start, !.limit_page_length = lpl]
    IN
    IF merged.raised # None
    THEN Begin(entered, merged, None, args.limit_page_length)
    ELSE Begin(c, merged, Some(start), lpl)

GetPaginatedDoc(h, limit_page_length, limit_start) ==
    /\ constructed /\ CanStart
    /\ call' = BeginWalk(Args("get_paginated_doc", "", FALSE, h, limit_page_length, limit_start))
    /\ KeepSuspended
    /\ UNCHANGED <<fields, server>>

\* mutant: the pagination flag is followed even when a record is named
UsePaginationAsAsked(name, pagination) == pagination

\* get_doc: `if name != "" and pagination: pagination = False`
UsePagination(name, pagination) == IF name # "" /\ pagination THEN FALSE ELSE pagination

\* get_doc: a parameter is sent only when the argument is truthy
ParamIfTruthy(o) == IF TruthyInt(o) THEN o ELSE None

GetDoc(name, pagination, h, limit_page_length, limit_start) ==
    LET args == Args("get_doc", name, pagination, h, limit_page_length, limit_start) IN
    /\ constructed /\ CanStart
    /\ call' = IF UsePagination(name, pagination)
               THEN BeginWalk(args)
               ELSE Begin(NewCall("get_doc", args), MergeHeaders(h, headers),
                          ParamIfTruthy(limit_start), ParamIfTruthy(limit_page_length))
    /\ KeepSuspended
    /\ UNCHANGED <<fields, server>>

\* set_session_token called by the caller on a constructed client
CallSetSessionToken(sd) ==
    LET set == SetSessionToken(cookies, sd)
        c == NewCall("set_session_token",
                     [NoArgs EXCEPT !.entry = "set_session_token"] @@ [session_data |-> sd])
    IN
    /\ constructed /\ CanStart
    /\ cookies' = set.cookies
    /\ call' = IF set.raised # None
               THEN [c EXCEPT !.pc = "raised", !.raised = set.raised]
               ELSE [c EXCEPT !.pc = "done"]
    /\ KeepSuspended
    /\ UNCHANGED <<constructed, usr, pwd, session_data, callback, headers, authorization,
                   server>>

(***************************************************************************)
(* After a response: decoding, and the steps of the paginated loop          *)
(***************************************************************************)
\* get / post / get_doc: `_process_response(response)` and return
FinishCall(c, response) ==
    LET p == ProcessResponse(response) IN
    IF p.raised # None
    THEN [c EXCEPT !.pc = "raised", !.raised = p.raised]
    ELSE [c EXCEPT !.pc = "done", !.result = p.value]

\* empty_response = {"data": []}
EmptyResponse == Doc(Some(<<>>))

\* len(processed_response.get("data", [])): .get fails on a value that is
\* not a dict, len fails on a "data" that is None
ItemCount(doc) ==
    IF ~doc.is_dict
    THEN [raised |-> Some(Exception("AttributeError", "object has no attribute 'get'")),
          value |-> None]
    ELSE IF doc.data_is_none
    THEN [raised |-> Some(Exception("TypeError", "object of type 'NoneType' has no len()")),
          value |-> None]
    ELSE [raised |-> None, value |-> IF doc.data = None THEN 0 ELSE Len(Val(doc.data))]

\* mutant: a page of exactly the page length is taken for the last one
PageBranchLe(count, limit_page_length) ==
    IF count = 0 THEN "empty"
    ELSE IF limit_page_length = None THEN "TypeError"
    ELSE IF count <= Val(limit_page_length) THEN "short"
    ELSE "more"

\* mutant: a page one item short of the page length is not taken for the last
PageBranchShort(count, limit_page_length) ==
    IF count = 0 THEN "empty"
    ELSE IF limit_page_length = None THEN "TypeError"
    ELSE IF count < Val(limit_page_length) - 1 THEN "short"
    ELSE "more"

\* the branch the loop takes on a decoded page:
\* "empty" and "short" yield and return, "more" advances and yields
PageBranch(count, limit_page_length) ==
    IF count = 0 THEN "empty"
    ELSE IF limit_page_length = None THEN "TypeError"
    ELSE IF count < Val(limit_page_length) THEN "short"
    ELSE "more"

\* mutant: the offset advances by one item too many
NextStartSkip(start, limit_page_length) == start + limit_page_length + 1

\* `start += limit_page_length`
NextStart(start, limit_page_length) == start + limit_page_length

\* the yield of the 404 check
Yield404(c) == [c EXCEPT !.pc = "last", !.yielded = Append(@, EmptyResponse)]

\* get_paginated_doc from `_process_response` to the next yield
FinishPage(c, response) ==
    LET p == ProcessResponse(response)
        doc == Val(p.value)
        count == ItemCount(doc)
        branch == PageBranch(count.value, c.limit_page_length)
        counted == [c EXCEPT !.pages = @ + 1]
    IN
    IF p.raised # None
    THEN [c EXCEPT !.pc = "raised", !.raised = p.raised]
    ELSE IF count.raised # None
    THEN [counted EXCEPT !.pc = "raised", !.raised = count.raised]
    ELSE CASE branch = "empty" ->
                [counted EXCEPT !.pc = "last", !.yielded = Append(@, EmptyResponse)]
           [] branch = "TypeError" ->
                [counted EXCEPT !.pc = "raised",
                    !.raised = Some(Exception("TypeError",
                        "'<' not supported between instances of 'int' and 'NoneType'"))]
           [] branch = "short" ->
                [counted EXCEPT !.pc = "last", !.yielded = Append(@, doc)]
           [] OTHER ->
                LET next == IF counted.pages > 0
                            THEN NextStart(c.start, Val(c.limit_page_length))
                            ELSE c.start
                IN
                [counted EXCEPT !.pc = "yielded", !.yielded = Append(@, doc),
                                !.start = next, !.limit_start = Some(next)]

\* mutant: the original response is decoded instead of the final one
FinishOriginal(c, response) ==
    IF c.op = "get_paginated_doc"
    THEN FinishPage(c, c.received[1])
    ELSE FinishCall(c, c.received[1])

Finish(c, response) ==
    IF c.op = "get_paginated_doc" THEN FinishPage(c, response) ELSE FinishCall(c, response)

\* mutant: a call does not log in when the call of the other thread has
\* logged in with success already
NeedsLoginCoalesced(status, legacy) ==
    /\ status = 403 /\ legacy
    /\ \A i \in 1..Len(other.logins) : other.logins[i].status # 200

\* mutant: a 403 leads to a login whatever the auth mode
NeedsLoginAnyAuth(status, legacy) == status = 403

\* `response.status_code == 403 and self.is_legacy_auth`
NeedsLogin(status, legacy) == status = 403 /\ legacy

\* the 404 check of the loop, made on the answer to the iteration's request
IsLastPage404(c, response) == c.op = "get_paginated_doc" /\ response.status = 404

\* the last request of the call that is not a login
LastCallRequest(c) ==
    LET i == CHOOSE j \in 1..Len(c.sent) :
                /\ c.sent[j].kind = "call"
                /\ \A k \in (j + 1)..Len(c.sent) : c.sent[k].kind # "call"
    IN c.sent[i]

(***************************************************************************)
(* The answers: first response, login response, response to the reissue     *)
(***************************************************************************)
OnFirstResponse(response) ==
    LET jar == StoreCookies(cookies, response)
        c == [call EXCEPT !.response = Some(response), !.received = Append(@, response)]
    IN
    /\ cookies' = jar
    /\ call' = IF IsLastPage404(c, response) THEN Yield404(c)
               ELSE IF NeedsLogin(response.status, is_legacy_auth)
               THEN [c EXCEPT !.pc = "login",
                              !.sent = Append(@, Request("login", headers, None, None, jar))]
               ELSE Finish(c, response)
    /\ UNCHANGED <<constructed, usr, pwd, session_data, callback, headers, authorization,
                   other, server>>

\* `if login_response.status_code == 200:` after _login returned
ReissueAfterLogin(status) == status = 200

\* _login from its response to the call of the callback: the status checks,
\* and `self.callback(session_data)` entered when a callback is configured
OnLoginResponse(response) ==
    LET jar == StoreCookies(cookies, response)
        raises == LoginRaises(response.status)
        answered == [call EXCEPT !.logins = Append(@, response)]
        c == [answered EXCEPT !.callbacks = @ \o LoginCallback(callback, response)]
    IN
    /\ cookies' = jar
    /\ call' = IF raises # None
               THEN [answered EXCEPT !.pc = "raised", !.raised = raises]
               ELSE [c EXCEPT !.pc = "loggedin"]
    /\ UNCHANGED <<constructed, usr, pwd, session_data, callback, headers, authorization,
                   other, server>>

\* the outcomes of `self.callback(session_data)`: the callback is the
\* caller's code, it returns or it raises (and it may take its time)
CallbackOutcomes(cb) == IF cb # None THEN {"returns", "raises"} ELSE {"returns"}

\* _login from the end of the callback on, and the caller of _login after it:
\* an exception of the callback leaves _login and its caller as it is; the
\* constructor stores the cookies of the login; a call reissues its request
\* with the cookies the jar holds by then
OnLoginReturn(outcome) ==
    LET login == call.logins[Len(call.logins)] IN
    IF outcome = "raises"
    THEN /\ call' = [call EXCEPT !.pc = "raised",
                         !.raised = Some(Exception("CallbackError",
                                                   "raised by self.callback"))]
         /\ UNCHANGED <<fields, other, server>>
    ELSE IF call.op = "__init__"
    THEN /\ call' = [call EXCEPT !.pc = "done"]
         /\ session_data' = Some(GetCookieData(login))
         /\ constructed' = TRUE
         /\ UNCHANGED <<usr, pwd, callback, headers, cookies, authorization, other, server>>
    ELSE /\ call' = IF ReissueAfterLogin(login.status)
                    THEN [call EXCEPT !.pc = "resent",
                            !.sent = Append(@, [LastCallRequest(call) EXCEPT
                                                    !.cookies = CookieHeader(cookies)])]
                    ELSE Finish(call, Val(call.response))
         /\ UNCHANGED <<fields, other, server>>

OnSecondResponse(response) ==
    LET c == [call EXCEPT !.response = Some(response), !.received = Append(@, response)] IN
    /\ cookies' = StoreCookies(cookies, response)
    /\ call' = Finish(c, response)
    /\ UNCHANGED <<constructed, usr, pwd, session_data, callback, headers, authorization,
                   other, server>>

\* the server answers the first request of a call (of an iteration of a walk)
FirstResponse ==
    /\ call.pc = "sent"
    /\ \E response \in Responses(call) : OnFirstResponse(response)

\* the server answers a login request
LoginResponse ==
    /\ call.pc = "login"
    /\ \E response \in LoginResponses : OnLoginResponse(response)

\* the callback of an accepted login is over (at once when there is none)
LoginReturn ==
    /\ call.pc = "loggedin"
    /\ \E outcome \in CallbackOutcomes(callback) : OnLoginReturn(outcome)

\* the server answers the request reissued after a login
SecondResponse ==
    /\ call.pc = "resent"
    /\ \E response \in Responses(call) : OnSecondResponse(response)

\* the consumer asks for the next page: the loop sends the next request
\* (the response of the previous iteration is not read again)
WalkNext ==
    /\ call.op = "get_paginated_doc"
    /\ call.pc = "yielded"
    /\ server.mode = "fixed" \/ call.pages < MaxPages
    /\ call' = [call EXCEPT !.pc = "sent", !.received = <<>>, !.response = None,
                    !.logins = <<>>,
                    !.offsets = Append(@, call.limit_start),
                    !.sent = <<Request("call", call.headers, call.limit_start,
                                       call.limit_page_length, cookies)>>]
    /\ UNCHANGED <<fields, other, server>>

\* the consumer asks for the next page after the last one: the generator
\* returns, and the client is free for the next call
WalkReturn ==
    /\ call.op = "get_paginated_doc"
    /\ call.pc = "last"
    /\ EndCall
    /\ UNCHANGED <<fields, server>>

\* the caller has the outcome of the operation (or drops the generator):
\* the client is free for the next call
Return ==
    /\ call.pc \in {"done", "raised", "yielded"}
    /\ EndCall
    /\ UNCHANGED <<fields, server>>

(***************************************************************************)
(* Specification                                                           *)
(***************************************************************************)
\* the caller has taken the outcome of its last call
Idle == call.pc = "idle"

GetDocNames == {"", "REC-1"}
GetDocPageLengths == {None, Some(1)}

Next ==
    \/ \E username \in Usernames, password \in Passwords, sd \in SessionDatas,
          api \in ApiPairs, cb \in Callbacks, h \in BaseHeaders :
            Construct(username, password, sd, api[1], api[2], cb, h)
    \/ \E h \in CallHeaders : Idle /\ Get(h)
    \/ \E h \in CallHeaders : Idle /\ Post(h)
    \/ \E h \in CallHeaders, limit_page_length \in PageLengths, limit_start \in Starts :
            Idle /\ GetPaginatedDoc(h, limit_page_length, limit_start)
    \/ \E name \in GetDocNames, pagination \in BOOLEAN, h \in CallHeaders,
          limit_page_length \in GetDocPageLengths, limit_start \in {None} :
            Idle /\ GetDoc(name, pagination, h, limit_page_length, limit_start)
    \/ FirstResponse
    \/ LoginResponse
    \/ LoginReturn
    \/ SecondResponse
    \/ WalkNext
    \/ WalkReturn
    \/ Return

Spec == Init /\ [][Next]_vars

(***************************************************************************)
(* The client against a server that holds a fixed collection: a client in   *)
(* API-key mode after construction, walking the listing of the collection   *)
(***************************************************************************)
InitFixed ==
    /\ constructed = TRUE
    /\ usr = None /\ pwd = None /\ session_data = None
    /\ callback = None
    /\ headers \in BaseHeaders
    /\ cookies = EmptyJar
    /\ authorization = Some(<<"token", "key", "shh">>)
    /\ call = NewCall("none", NoArgs)
    /\ other = NewCall("none", NoArgs)
    /\ server \in {[mode |-> "fixed", size |-> n] : n \in Sizes}

NextFixed ==
    \/ \E h \in CallHeaders, limit_page_length \in PageLengths, limit_start \in Starts :
            Idle /\ GetPaginatedDoc(h, limit_page_length, limit_start)
    \/ FirstResponse
    \/ WalkNext
    \/ WalkReturn
    \/ Return

SpecFixed == InitFixed /\ [][NextFixed]_vars

(***************************************************************************)
(* The session in use: a client of any credential mode, whose caller sets   *)
(* the session cookies with set_session_token, calls get, walks a listing,  *)
(* and calls set_session_token and get from the body of the loop over the   *)
(* walk, while the generator is suspended.                                  *)
(***************************************************************************)
SessionPageLengths == {Some(1)}

NextSession ==
    \/ \E username \in Usernames, password \in Passwords, sd \in SessionDatas,
          api \in ApiPairs :
            Construct(username, password, sd, api[1], api[2], None, None)
    \/ \E sd \in SessionDatas : CallSetSessionToken(sd)
    \/ Get(None)
    \/ \E limit_page_length \in SessionPageLengths :
            Idle /\ GetPaginatedDoc(None, limit_page_length, None)
    \/ FirstResponse
    \/ LoginResponse
    \/ LoginReturn
    \/ SecondResponse
    \/ WalkNext
    \/ WalkReturn
    \/ Return

SpecSession == Init /\ [][NextSession]_vars

(***************************************************************************)
(* Two threads call get or post on one client in cookie mode.  The object   *)
(* has no lock: each thread runs the code of its call, and the threads      *)
(* interleave at the HTTP exchanges and at the callback of a login, where a *)
(* thread blocks.  `call` is the call of the thread that runs, `other` the  *)
(* call of the thread that waits.  The client was built with session data   *)
(* or by a login: its jar holds the cookie of the one or of the other.      *)
(***************************************************************************)
\* the scheduler takes the other thread
Switch ==
    /\ call # other
    /\ call' = other
    /\ other' = call
    /\ UNCHANGED <<fields, server>>

InitTwo ==
    /\ constructed = TRUE
    /\ usr = Some("admin") /\ pwd = Some("secret")
    /\ session_data = Some(Dict1("sid", "s0"))
    /\ callback \in Callbacks
    /\ headers \in BaseHeaders
    /\ cookies \in {SetSessionToken(EmptyJar, session_data).cookies,
                     StoreCookies(EmptyJar, Response(200, None, Val(session_data)))}
    /\ authorization = None
    /\ call = NewCall("none", NoArgs)
    /\ other = NewCall("none", NoArgs)
    /\ server = [mode |-> "any", size |-> 0]

NextTwo ==
    \/ \E h \in CallHeaders : Get(h)
    \/ \E h \in CallHeaders : Post(h)
    \/ FirstResponse
    \/ LoginResponse
    \/ LoginReturn
    \/ SecondResponse
    \/ Switch

SpecTwo == InitTwo /\ [][NextTwo]_vars

(***************************************************************************)
(* Vocabulary of the properties                                            *)
(***************************************************************************)
\* the calls a caller makes on a constructed client
IsCall == call.op \in {"get", "post", "get_doc", "get_paginated_doc"}
IsWalk == call.op = "get_paginated_doc"

\* the credential mode fixed at construction
CookieAuth == TruthyStr(usr) /\ TruthyStr(pwd)
ApiKeyAuth == authorization # None /\ ~CookieAuth

\* requests of the current call (iteration of a walk), by kind
NumSent(kind) == Cardinality({i \in 1..Len(call.sent) : call.sent[i].kind = kind})

\* the call (iteration) has its outcome: a result, a failure or a yielded page
Ended == call.pc \in {"done", "raised", "yielded", "last"}

\* the first answer to the call (iteration) was a 403
First403 == Len(call.received) >= 1 /\ call.received[1].status = 403

\* the call (the construction) ended on an exception of the callback
CallbackRaised == call.pc = "raised" /\ Val(call.raised).type = "CallbackError"

LastYielded == call.yielded[Len(call.yielded)]

\* the number of items of a document the loop can count
NumItems(doc) == ItemCount(doc).value

(***************************************************************************)
(* C1: in every call (get, post, get_doc, each iteration of a paginated     *)
(* walk) whose first response is a 403: under cookie auth exactly one login *)
(* is attempted, and the call is reissued exactly once if that login        *)
(* returned 200 (_login came back with the 200: its callback, if one is     *)
(* configured, did not raise) and not at all otherwise, nor before _login   *)
(* is back; under API-key auth there is no login and no reissue.            *)
(***************************************************************************)
RetryOnce ==
    (constructed /\ IsCall /\ First403 /\ call.pc # "sent") =>
        /\ CookieAuth =>
              /\ NumSent("login") = 1
              /\ call.pc = "login" => NumSent("call") = 1 /\ call.logins = <<>>
              /\ call.pc = "loggedin" =>
                    /\ NumSent("call") = 1
                    /\ Len(call.logins) = 1 /\ call.logins[1].status = 200
              /\ call.pc \notin {"login", "loggedin"} =>
                    /\ Len(call.logins) = 1
                    /\ NumSent("call") =
                          (IF call.logins[1].status = 200 /\ ~CallbackRaised THEN 2 ELSE 1)
                    /\ Ended => Len(call.received) = NumSent("call")
        /\ ApiKeyAuth =>
              /\ NumSent("login") = 0
              /\ NumSent("call") = 1
              /\ Len(call.received) = 1
              /\ Ended

\* a walk under cookie auth whose second iteration met a 403, logged in with
\* success and has the answer to its reissued request
RetryOnceWitness ==
    /\ IsWalk /\ CookieAuth /\ First403 /\ Ended
    /\ Len(call.offsets) = 2
    /\ Len(call.logins) = 1 /\ call.logins[1].status = 200
    /\ NumSent("call") = 2

(***************************************************************************)
(* C2: when the call reissued after a successful re-login fails again       *)
(* (whatever its status, a second 403 included), there is no further login  *)
(* and no further reissue, and what the caller gets is the decoding of that *)
(* second response, never of the original 403.                              *)
(***************************************************************************)
\* what decoding `response` gives the caller of the current call
DecodingOf(response) ==
    IF response.body = None
    THEN /\ call.pc = "raised"
         /\ Val(call.raised).type = "GeneralException"
         /\ Val(call.raised).message = "Unable to process non JSON response"
    ELSE IF ~IsWalk
    THEN call.pc = "done" /\ call.result = response.body
    ELSE IF ItemCount(Val(response.body)).raised # None
    THEN call.pc = "raised" /\ call.raised = ItemCount(Val(response.body)).raised
    ELSE IF NumItems(Val(response.body)) = 0
    THEN call.pc = "last" /\ LastYielded = EmptyResponse
    ELSE \/ call.pc \in {"yielded", "last"} /\ LastYielded = Val(response.body)
         \/ call.limit_page_length = None /\ call.pc = "raised"
                /\ Val(call.raised).type = "TypeError"

NoSecondRetry ==
    (IsCall /\ Len(call.received) = 2 /\ call.received[2].status # 200) =>
        /\ Ended
        /\ NumSent("login") = 1
        /\ NumSent("call") = 2
        /\ call.response = Some(call.received[2])
        /\ DecodingOf(call.received[2])

\* a get whose reissued request was answered 403 again, with a body that
\* differs from the body of the first 403
NoSecondRetryWitness ==
    /\ call.op = "get" /\ Len(call.received) = 2
    /\ call.received[2].status = 403
    /\ call.received[1].body = None
    /\ call.received[2].body # None
    /\ call.pc = "done"

(***************************************************************************)
(* C3: a login answered 403 fails with the authentication error             *)
(* (TokenException), a login answered with another non-200 status fails     *)
(* with GeneralException; at construction and at every re-login.            *)
(***************************************************************************)
\* the current operation was ended by the failure of its login
LoginFailed ==
    /\ call.pc = "raised"
    /\ Len(call.logins) = 1
    /\ call.logins[1].status # 200

LoginErrorKinds ==
    LoginFailed =>
        Val(call.raised).type =
            (IF call.logins[1].status = 403 THEN "TokenException" ELSE "GeneralException")

(***************************************************************************)
(* C4: construction with session data and without the username or without  *)
(* the password fails with MissingConfigException before any HTTP request.  *)
(***************************************************************************)
\* the constructor was given (non-empty) session data and lacks a credential
SessionWithoutCredentials ==
    /\ call.op = "__init__"
    /\ TruthyDict(call.args.session_data)
    /\ ~(TruthyStr(call.args.username) /\ TruthyStr(call.args.password))

MissingCredentialsRejected ==
    SessionWithoutCredentials =>
        /\ call.pc = "raised"
        /\ Val(call.raised).type = "MissingConfigException"
        /\ call.sent = <<>>
        /\ call.logins = <<>>
        /\ ~constructed

\* session data and a username, but no password
MissingCredentialsWitness ==
    /\ SessionWithoutCredentials
    /\ call.args.username = Some("admin")
    /\ call.args.password = None
    /\ call.pc = "raised"

(***************************************************************************)
(* C5: a call given per-call headers sends the base headers extended by the *)
(* caller's headers, the caller's value winning on every common key; also   *)
(* when no base headers are configured.                                     *)
(***************************************************************************)
\* caller over base: the mapping the claim describes
CallerOverBase(h, base) == DictUpdate(IF base = None THEN EmptyDict ELSE Val(base), Val(h))

CallerHeadersWin ==
    (constructed /\ IsCall /\ TruthyDict(call.args.headers)) =>
        /\ call.pc # "raised" \/ Val(call.raised).type # "TypeError"
        /\ \A i \in 1..Len(call.sent) :
              call.sent[i].kind = "call" =>
                  call.sent[i].headers = Some(CallerOverBase(call.args.headers, headers))

(***************************************************************************)
(* C6: a paginated walk stops exactly after yielding a last page, in these  *)
(* cases: (a) the request of the iteration is answered 404: it yields       *)
(* {data: []}; (b) the decoded page has no items: it yields an empty page;  *)
(* (c) the decoded page has at least one and fewer than pageSize items: it  *)
(* yields that page unchanged.  A decoded page of pageSize items or more is *)
(* yielded and the walk goes on.                                            *)
(***************************************************************************)
\* the 404 check ended the iteration
Stopped404 == Len(call.received) = 1 /\ call.received[1].status = 404

\* the page the iteration decoded
DecodedPage == Val(Val(call.response).body)

WalkStops ==
    (IsWalk /\ call.pc \in {"yielded", "last"}) =>
        /\ Len(call.yielded) = Len(call.offsets)
        /\ IF Stopped404
           THEN call.pc = "last" /\ LastYielded = EmptyResponse
           ELSE /\ Val(call.response).body # None
                /\ LET n == NumItems(DecodedPage) IN
                   IF n = 0
                   THEN call.pc = "last" /\ LastYielded = EmptyResponse
                   ELSE /\ call.limit_page_length # None
                        /\ LastYielded = DecodedPage
                        /\ call.pc = (IF n < Val(call.limit_page_length)
                                      THEN "last" ELSE "yielded")

\* the second iteration of a walk with page length 2 decoded a page of one item
WalkStopsWitness ==
    /\ IsWalk /\ call.pc = "last" /\ ~Stopped404
    /\ Len(call.offsets) = 2
    /\ call.limit_page_length = Some(2)
    /\ NumItems(DecodedPage) = 1
    /\ NumItems(call.yielded[1]) = 2

(***************************************************************************)
(* C7: in a paginated walk, whenever the response that ends an iteration    *)
(* (the response to a reissued request included) has status 404, the walk   *)
(* yields {data: []} and stops without decoding the body.                   *)
(***************************************************************************)
Final404EndsWalk ==
    (IsWalk /\ Ended /\ Len(call.received) >= 1
            /\ call.received[Len(call.received)].status = 404) =>
        /\ call.pc = "last"
        /\ LastYielded = EmptyResponse
        /\ call.pages = Len(call.offsets) - 1

(***************************************************************************)
(* C8: the first request of a walk carries the caller's limit_start (0 when *)
(* omitted); each later iteration's offset is the previous one plus exactly *)
(* pageSize; a request reissued after a re-login carries the offset of its  *)
(* iteration.                                                               *)
(***************************************************************************)
OffsetAdvances ==
    (IsWalk /\ Len(call.offsets) >= 1) =>
        /\ call.offsets[1] =
              Some(IF call.args.limit_start = None THEN 0 ELSE Val(call.args.limit_start))
        /\ \A i \in 1..(Len(call.offsets) - 1) :
              Val(call.offsets[i + 1]) = Val(call.offsets[i]) + Val(call.limit_page_length)
        /\ \A i \in 1..Len(call.sent) :
              call.sent[i].kind = "call" =>
                  call.sent[i].limit_start = call.offsets[Len(call.offsets)]

\* a walk from offset 1 whose second iteration reissued its request after a login
OffsetAdvancesWitness ==
    /\ IsWalk /\ call.args.limit_start = Some(1)
    /\ Len(call.offsets) = 2
    /\ call.limit_page_length = Some(2)
    /\ NumSent("call") = 2
    /\ call.sent[3].limit_start = Some(3)

(***************************************************************************)
(* C9: against a server holding totalItems records that answers a listing   *)
(* request with the records at [offset, offset + pageSize) (an empty page or *)
(* 404 past the end), a walk from offset 0 makes at most                    *)
(* ceil(totalItems / pageSize) + 1 iterations and then has stopped; it makes *)
(* that many only when the records fill their pages exactly.                *)
(***************************************************************************)
CeilDiv(n, d) == (n + d - 1) \div d

\* a walk from offset 0 against the fixed collection
WalkFromZero ==
    /\ server.mode = "fixed" /\ IsWalk
    /\ Len(call.offsets) >= 1 /\ call.offsets[1] = Some(0)

IterationBound ==
    WalkFromZero =>
        LET bound == CeilDiv(server.size, Val(call.limit_page_length)) + 1 IN
        /\ Len(call.offsets) <= bound
        /\ Len(call.offsets) = bound =>
              /\ server.size % Val(call.limit_page_length) = 0
              /\ call.pc \in {"sent", "last"}
        /\ call.pc = "last" => Len(call.offsets) >= bound - 1

\* four records in pages of two: three iterations, the third one a probe
IterationBoundWitness ==
    /\ WalkFromZero /\ call.pc = "last"
    /\ server.size = 4 /\ call.limit_page_length = Some(2)
    /\ Len(call.offsets) = 3

(***************************************************************************)
(* C10: against a server holding N records a walk with page size P yields   *)
(* floor(N/P) full pages and then one page of N mod P items (an empty page   *)
(* when N mod P = 0); the yielded pages, concatenated, are the records from *)
(* the start offset on, in order, none twice and none left out.             *)
(***************************************************************************)
\* the items of a page
Items(page) == IF page.data = None THEN <<>> ELSE Val(page.data)

RECURSIVE Concat(_)
Concat(pages) ==
    IF Len(pages) = 0 THEN <<>>
    ELSE IF Len(pages) = 1 THEN Items(pages[1])
    ELSE LET mid == Len(pages) \div 2 IN
         Concat(SubSeq(pages, 1, mid)) \o Concat(SubSeq(pages, mid + 1, Len(pages)))

PagesCoverCollection ==
    (server.mode = "fixed" /\ IsWalk /\ call.pc = "last") =>
        LET N == server.size
            P == Val(call.limit_page_length)
            s == Val(call.offsets[1])
        IN
        /\ Concat(call.yielded) = Range(s + 1, N)
        /\ s = 0 =>
              /\ Len(call.yielded) = (N \div P) + 1
              /\ \A i \in 1..(N \div P) : NumItems(call.yielded[i]) = P
              /\ NumItems(LastYielded) = N % P
              /\ N % P = 0 => LastYielded = EmptyResponse

\* the worked example: 250 records in pages of 100 come as 100, 100 and 50
PagesCoverCollectionWitness ==
    /\ server.mode = "fixed" /\ IsWalk /\ call.pc = "last"
    /\ server.size = 250
    /\ call.limit_page_length = Some(DefaultPageLength)
    /\ call.offsets[1] = Some(0)
    /\ Len(call.yielded) = 3
    /\ NumItems(call.yielded[3]) = 50

(***************************************************************************)
(* C11: in every paginated walk, started by get_paginated_doc or by get_doc *)
(* with pagination, that has reached its loop, the page length the loop     *)
(* works with is a positive integer, and it is 100 when the caller passed 0 *)
(* or passed none.                                                          *)
(***************************************************************************)
PageSizePositive ==
    (IsWalk /\ call.offsets # <<>>) =>
        /\ call.limit_page_length # None
        /\ Val(call.limit_page_length) > 0
        /\ call.args.limit_page_length \in {None, Some(0)} =>
              call.limit_page_length = Some(DefaultPageLength)

(***************************************************************************)
(* C12: get_doc for a named record with pagination asked is the call with   *)
(* pagination not asked: the call starts as that call starts (and nothing   *)
(* later reads the flag), it sends one request for the record and at most   *)
(* one more after a re-login on a 403, it starts no walk over offsets, and  *)
(* its result is the one decoded body of the final response.                *)
(***************************************************************************)
NamedRecord == constructed /\ call.args.entry = "get_doc" /\ call.args.name # ""

\* the call get_doc starts when pagination is not asked
UnpaginatedStart(args) ==
    Begin(NewCall("get_doc", [args EXCEPT !.pagination = FALSE]),
          MergeHeaders(args.headers, headers),
          ParamIfTruthy(args.limit_start), ParamIfTruthy(args.limit_page_length))

NamedRecordIgnoresPagination ==
    NamedRecord =>
        /\ call.op = "get_doc"
        /\ (call.received = <<>> /\ call.logins = <<>>) =>
              [call EXCEPT !.args.pagination = FALSE] = UnpaginatedStart(call.args)
        /\ call.yielded = <<>> /\ call.pages = 0 /\ Len(call.offsets) <= 1
        /\ call.pc \notin {"yielded", "last"}
        /\ NumSent("call") <= 2 /\ NumSent("login") <= 1
        /\ NumSent("call") = 2 => (First403 /\ NumSent("login") = 1)
        /\ \A i \in 1..Len(call.sent) :
              call.sent[i].kind = "call" =>
                 /\ call.sent[i].limit_start = ParamIfTruthy(call.args.limit_start)
                 /\ call.sent[i].limit_page_length =
                        ParamIfTruthy(call.args.limit_page_length)
        /\ call.pc = "done" =>
              /\ call.result = call.received[Len(call.received)].body
              /\ call.result # None

\* a named record asked with pagination, met by a 403, a login and a reissue
NamedRecordIgnoresPaginationWitness ==
    /\ NamedRecord /\ call.args.pagination
    /\ call.args.limit_page_length # None
    /\ call.pc = "done"
    /\ Len(call.received) = 2

(***************************************************************************)
(* C13 as stated: on every call path and for every status of the final      *)
(* response, a body that is not JSON makes the call fail with               *)
(* GeneralException, and nothing is returned or yielded for that response.  *)
(***************************************************************************)
\* the call (iteration) ended on a response of its own request: the first
\* one when no login was made, the one to the reissued request otherwise
HasFinalResponse ==
    /\ constructed /\ IsCall /\ Ended
    /\ call.received # <<>>
    /\ NumSent("login") = 0 \/ Len(call.received) = 2

FinalResponse == call.received[Len(call.received)]

\* the call failed on the body, with no value for the caller
FailedOnBody ==
    /\ call.pc = "raised"
    /\ Val(call.raised).type = "GeneralException"
    /\ Val(call.raised).message = "Unable to process non JSON response"
    /\ call.result = None
    /\ Len(call.yielded) = Len(call.offsets) - 1

UnparsableBodyFails ==
    (HasFinalResponse /\ FinalResponse.body = None) => FailedOnBody

(***************************************************************************)
(* C13, amended: the same, except for the 404 that answers the request of   *)
(* an iteration of a paginated walk: that response is not decoded, the walk *)
(* yields the empty page and ends, whatever the body.                       *)
(***************************************************************************)
UnparsableBodyFailsBut404 ==
    (HasFinalResponse /\ FinalResponse.body = None) =>
        IF IsWalk /\ Stopped404
        THEN /\ call.pc = "last" /\ call.raised = None
             /\ LastYielded = EmptyResponse
             /\ Len(call.yielded) = Len(call.offsets)
        ELSE FailedOnBody

\* a walk under cookie auth whose second iteration was met by a 403 and,
\* after the login, by a 500 that is not JSON
UnparsableBodyFailsBut404Witness ==
    /\ HasFinalResponse /\ IsWalk /\ FailedOnBody
    /\ Len(call.offsets) = 2
    /\ Len(call.received) = 2
    /\ FinalResponse.status = 500 /\ FinalResponse.body = None

(***************************************************************************)
(* C14: with a callback configured, every login answered 200 (the login of  *)
(* the construction and every re-login after a 403) calls the callback      *)
(* once, with the cookies of that login's response; a login answered        *)
(* otherwise calls nothing, no other step calls the callback, and a         *)
(* construction that sends no login (session data given, or API key) calls  *)
(* nothing.                                                                 *)
(***************************************************************************)
\* this step is the answer to a login request
IsLoginStep == call.pc = "login" /\ Len(call'.logins) = Len(call.logins) + 1

\* the calls of the callback that the answer to a login adds
CallbackCallsFor(response) ==
    IF callback # None /\ response.status = 200 THEN <<response.cookies>> ELSE <<>>

CallbackStep ==
    IF IsLoginStep
    THEN call'.callbacks =
            call.callbacks \o CallbackCallsFor(call'.logins[Len(call'.logins)])
    ELSE call'.callbacks = call.callbacks \/ call'.callbacks = <<>>

NoLoginNoCallback ==
    /\ callback = None => call.callbacks = <<>>
    /\ (call.op = "__init__" /\ NumSent("login") = 0) => call.callbacks = <<>>
    /\ (call.op = "__init__" /\ Len(call.logins) = 1) =>
            call.callbacks = CallbackCallsFor(call.logins[1])

CallbackOncePerLogin == [][CallbackStep /\ NoLoginNoCallback']_vars

\* a walk whose second iteration logged in again, with the callback called
\* with the cookies of that login
CallbackOncePerLoginWitness ==
    /\ IsWalk /\ Len(call.offsets) = 2
    /\ callback # None
    /\ call.pc = "resent"
    /\ call.logins[1].cookies = Dict1("sid", "s1")
    /\ call.callbacks = <<Dict1("sid", "s1")>>

(***************************************************************************)
(* C15: after a re-login that a 403 set off and that succeeded, the session *)
(* data the client stores are the session cookies of that login's response  *)
(* (not the value of the construction), and the reissued request carries    *)
(* exactly those cookies.                                                   *)
(***************************************************************************)
\* the call (iteration) logged in again with success and went on
ReloggedIn ==
    /\ constructed /\ IsCall
    /\ Len(call.logins) = 1 /\ call.logins[1].status = 200
    /\ call.pc # "loggedin" /\ ~CallbackRaised

SessionReplacedOnRelogin ==
    ReloggedIn =>
        /\ session_data = Some(GetCookieData(call.logins[1]))
        /\ NumSent("call") = 2
        /\ call.sent[Len(call.sent)].cookies =
                CookieHeader(Jar(EmptyDict, GetCookieData(call.logins[1])))

(***************************************************************************)
(* C16: the session state the client stores (the session data and the       *)
(* cookie jar whose cookies go out with every request) changes only by the  *)
(* construction or as the effect of a login answered 200: the jar when that *)
(* answer comes in, the session data when that login has returned; the      *)
(* credentials (user, password, authorization header) are set by the        *)
(* constructor alone.  A login answered 403 or otherwise not 200, a call    *)
(* that needs no login and every call under API-key auth leave all of them  *)
(* as they were.                                                            *)
(***************************************************************************)
\* this step runs the constructor
IsConstructStep == call.pc = "idle" /\ call'.op = "__init__"

\* this step is the return of _login, after the callback
IsLoginReturnStep == call.pc = "loggedin" /\ call'.pc # "loggedin"

LastLoginOf(c) == c.logins[Len(c.logins)]

SessionFrameStep ==
    /\ session_data' # session_data =>
          \/ IsConstructStep /\ session_data' = call'.args.session_data
          \/ /\ IsLoginReturnStep
             /\ LastLoginOf(call).status = 200
             /\ session_data' = Some(GetCookieData(LastLoginOf(call)))
    /\ cookies' # cookies =>
          \/ IsConstructStep
          \/ IsLoginStep /\ LastLoginOf(call').status = 200
    /\ <<usr, pwd, authorization>>' # <<usr, pwd, authorization>> => IsConstructStep
    /\ (IsLoginStep /\ LastLoginOf(call').status # 200) =>
          UNCHANGED <<session_data, cookies, usr, pwd, authorization>>
    /\ (constructed /\ IsCall /\ call.pc = "sent" /\ call'.pc # "login") =>
          UNCHANGED <<session_data, cookies, usr, pwd, authorization>>
    /\ (constructed /\ ApiKeyAuth /\ IsCall) =>
          UNCHANGED <<session_data, cookies, usr, pwd, authorization>>

SessionFrame == [][SessionFrameStep]_vars

(***************************************************************************)
(* C17: what the constructor sends depends on the credential mode alone.    *)
(* With an API key (no user and password, no session data) it sends nothing *)
(* and installs the authorization header of the key.  With user and         *)
(* password and no session data it sends exactly one login, and when that   *)
(* login fails the construction fails.  With user, password and session     *)
(* data it sends nothing and installs the session data it was given.        *)
(***************************************************************************)
PasswordGiven == TruthyStr(call.args.username) /\ TruthyStr(call.args.password)
SessionGiven == TruthyDict(call.args.session_data)
ApiKeyGiven == TruthyStr(call.args.api_key) /\ TruthyStr(call.args.api_secret)

ConstructionCalls ==
    call.op = "__init__" =>
        /\ (ApiKeyGiven /\ ~PasswordGiven /\ ~SessionGiven) =>
              /\ call.sent = <<>> /\ call.logins = <<>>
              /\ call.pc = "done" /\ constructed
              /\ authorization =
                    Some(<<"token", Val(call.args.api_key), Val(call.args.api_secret)>>)
              /\ session_data = None /\ cookies = EmptyJar
        /\ (PasswordGiven /\ ~SessionGiven) =>
              /\ Len(call.sent) = 1 /\ call.sent[1].kind = "login"
              /\ call.pc \in {"login", "loggedin", "done", "raised"}
              /\ call.pc = "login" => call.logins = <<>> /\ ~constructed
              /\ call.pc # "login" => Len(call.logins) = 1
              /\ call.pc = "loggedin" => call.logins[1].status = 200 /\ ~constructed
              /\ (call.pc # "login" /\ call.logins[1].status # 200) =>
                    /\ call.pc = "raised" /\ ~constructed
                    /\ Val(call.raised).type = "GeneralException"
              /\ call.pc = "done" =>
                    /\ call.logins[1].status = 200 /\ constructed
                    /\ session_data = Some(GetCookieData(call.logins[1]))
              /\ authorization = None
        /\ (PasswordGiven /\ SessionGiven) =>
              /\ call.sent = <<>> /\ call.logins = <<>>
              /\ call.pc = "done" /\ constructed
              /\ session_data = call.args.session_data
              /\ cookies = Jar(Val(call.args.session_data), EmptyDict)
              /\ authorization = None

\* a construction with user and password whose login was answered 500
ConstructionCallsWitness ==
    /\ call.op = "__init__" /\ PasswordGiven /\ ~SessionGiven
    /\ ApiKeyGiven
    /\ call.pc = "raised" /\ ~constructed
    /\ Len(call.sent) = 1
    /\ call.logins[1].status = 500

(***************************************************************************)
(* C18: an exception of the callback, called for a login answered 200, does *)
(* not end that login: the construction completes with the session data of  *)
(* the login stored, and a call that logged in again after a 403 is         *)
(* reissued and ends on the answer to the reissued request.                 *)
(***************************************************************************)
\* a login answered 200 for which the callback was called
CallbackCalled ==
    /\ callback # None
    /\ call.pc \notin {"login", "loggedin"}
    /\ Len(call.logins) = 1 /\ call.logins[1].status = 200

CallbackFailureContained ==
    CallbackCalled =>
        /\ ~CallbackRaised
        /\ call.op = "__init__" =>
              /\ call.pc = "done" /\ constructed
              /\ session_data = Some(GetCookieData(call.logins[1]))
        /\ IsCall => NumSent("call") = 2

(***************************************************************************)
(* C19: in a paginated walk, a final response of an iteration whose status  *)
(* is an error other than 404 (a 403 under API-key auth, a 500) and whose   *)
(* body is JSON without items raises nothing: the walk yields the empty     *)
(* page {data: []} and ends, as it does at the end of the collection.       *)
(***************************************************************************)
\* the final response of the iteration is an error, not 404, that decodes
\* to a document without items
ErrorWithoutItems ==
    /\ HasFinalResponse /\ IsWalk
    /\ FinalResponse.status \notin {200, 404}
    /\ FinalResponse.body # None
    /\ Items(Val(FinalResponse.body)) = <<>>

\* the iteration ended as the one that meets the end of the collection
EndedAsEndOfCollection ==
    /\ call.pc = "last" /\ call.raised = None
    /\ Len(call.yielded) = Len(call.offsets)
    /\ LastYielded = EmptyResponse

ErrorEndsWalkSilently == ErrorWithoutItems => EndedAsEndOfCollection

(***************************************************************************)
(* C20: two calls of two threads on one client in cookie mode, interleaved  *)
(* in any way: each call sends at most one login and at most one reissued   *)
(* request; every call whose first answer is a 403 sends a login of its     *)
(* own, whatever the other call has done (logins are not shared), so the    *)
(* logins are as many as the calls that met a 403; and the request a call   *)
(* reissues carries the cookie jar as it is then, which the login of the    *)
(* other call may have written.                                             *)
(***************************************************************************)
NumSentBy(c, kind) == Cardinality({i \in 1..Len(c.sent) : c.sent[i].kind = kind})

\* the first answer to the call was a 403 and the call has acted on it
Met403(c) == Len(c.received) >= 1 /\ c.received[1].status = 403 /\ c.pc # "sent"

BothCalls == {call, other}

NumMet403 == (IF Met403(call) THEN 1 ELSE 0) + (IF Met403(other) THEN 1 ELSE 0)

LoginsNotCoalesced ==
    /\ \A c \in BothCalls :
          /\ NumSentBy(c, "login") <= 1
          /\ NumSentBy(c, "call") <= 2
          /\ NumSentBy(c, "login") = (IF Met403(c) THEN 1 ELSE 0)
          /\ NumSentBy(c, "call") = 2 =>
                /\ Len(c.logins) = 1 /\ c.logins[1].status = 200
                /\ Len(c.sent) = 3 /\ c.sent[3].kind = "call"
    /\ NumSentBy(call, "login") + NumSentBy(other, "login") = NumMet403

\* both calls left with the cookie of the construction and met a 403; both
\* logged in; the login of the call that runs set no cookie, that of the
\* other call set sid=s1, and the call that runs reissued with sid=s1
LoginsNotCoalescedWitness ==
    /\ Met403(call) /\ Met403(other)
    /\ call.sent[1].cookies = Dict1("sid", <<"s0">>)
    /\ other.sent[1].cookies = Dict1("sid", <<"s0">>)
    /\ Len(call.logins) = 1 /\ call.logins[1].status = 200
    /\ Len(other.logins) = 1 /\ other.logins[1].status = 200
    /\ GetCookieData(call.logins[1]) = EmptyDict
    /\ GetCookieData(other.logins[1]) = Dict1("sid", "s1")
    /\ call.pc = "done"
    /\ call.sent[3].cookies = Dict1("sid", <<"s0", "s1">>)

====
